---- MODULE Spec2Model ----
(***************************************************************************)
(* A model of go-slogx-slack: the Slack record formatter (formatter.go)    *)
(* and the Slack log handler (handler.go).                                 *)
(*                                                                         *)
(* Strings are sequences of one-character strings, so that joining a group *)
(* path with "." and searching a key for a pattern are computed and not    *)
(* assumed.  Go slices are modelled as headers (array, len, cap) over a    *)
(* heap of backing arrays, so that two slices that share a backing array   *)
(* are visible as such.                                                    *)
(***************************************************************************)
EXTENDS Integers, Sequences, FiniteSets, TLC

VARIABLES
    handlers,     \* the slackHandler objects created so far, in creation order
    attrsHeap,    \* backing arrays of the []slog.Attr slices
    futuresHeap,  \* backing arrays of the []async.Future slices
    groupsHeap,   \* backing arrays of the []string slices
    tasks,        \* the goroutines started by async.Exec, in start order
    shutdown,     \* the (single) caller of Shutdown and where it stands
    last,         \* what the most recent API call was given and returned
    fmt,          \* the formatter under test: its options, input and result
    inflight      \* the asynchronous Handle calls made statement by statement

vars == <<handlers, attrsHeap, futuresHeap, groupsHeap, tasks, shutdown, last, fmt, inflight>>

----------------------------------------------------------------------------
(* Strings *)

EmptyStr == <<>>
Dot == <<".">>

\* The characters that occur, in byte order.
Alphabet == <<".", "a", "g", "h", "j", "k", "u">>

CharOrd(c) == CHOOSE i \in 1..Len(Alphabet) : Alphabet[i] = c

\* s < t in Go's string order (bytewise lexicographic).
RECURSIVE StrLess(_, _)
StrLess(s, t) ==
    IF t = EmptyStr THEN FALSE
    ELSE IF s = EmptyStr THEN TRUE
    ELSE IF Head(s) = Head(t) THEN StrLess(Tail(s), Tail(t))
    ELSE CharOrd(Head(s)) < CharOrd(Head(t))

\* strings.Contains(s, sub)
Contains(s, sub) ==
    \E i \in 0..(Len(s) - Len(sub)) : SubSeq(s, i + 1, i + Len(sub)) = sub

\* strings.LastIndex(s, "."), 0-based; -1 when there is none.
LastDot(s) ==
    IF \E i \in 1..Len(s) : s[i] = "."
    THEN (CHOOSE i \in 1..Len(s) : s[i] = "." /\ \A j \in (i + 1)..Len(s) : s[j] # ".") - 1
    ELSE -1

----------------------------------------------------------------------------
(* slog.Attr and slog.Value.  A value is a record of its kind, its payload  *)
(* in textual form (val) and, for a group, its members.  marshal says what  *)
(* a KindAny payload's MarshalText does: "none" (no TextMarshaler), "ok",   *)
(* "err".                                                                   *)

ScalarValue(kind, text) == [Kind |-> kind, val |-> text, group |-> <<>>, marshal |-> "none"]
StringValue(text) == ScalarValue("String", text)
AnyValue(text, m) == [Kind |-> "Any", val |-> text, group |-> <<>>, marshal |-> m]
GroupValue(as) == [Kind |-> "Group", val |-> EmptyStr, group |-> as, marshal |-> "none"]

Attr(key, value) == [Key |-> key, Value |-> value]
\* slog.Group(name, attrs...)
Group(name, as) == Attr(name, GroupValue(as))
\* the zero slog.Attr, which fills the unused part of a backing array
ZeroAttr == Attr(EmptyStr, [Kind |-> "Any", val |-> EmptyStr, group |-> <<>>, marshal |-> "none"])

----------------------------------------------------------------------------
(* The attribute helpers of slogx (spec section 4.1).                       *)

\* join of a group prefix and a key with "."
JoinKey(prefix, key) == IF prefix = EmptyStr THEN key ELSE prefix \o Dot \o key

\* One leaf per non-group value, keyed by the dotted path; groups themselves
\* never appear and an empty group contributes nothing.
RECURSIVE FlattenRaw(_, _)
FlattenRaw(prefix, as) ==
    IF as = <<>> THEN <<>>
    ELSE LET a == Head(as)
             k == JoinKey(prefix, a.Key)
         IN (IF a.Value.Kind = "Group" THEN FlattenRaw(k, a.Value.group)
                                        ELSE <<Attr(k, a.Value)>>)
            \o FlattenRaw(prefix, Tail(as))

\* Duplicate keys are resolved by last occurrence wins: an entry is kept iff
\* no later entry has its key.
DedupLast(as) ==
    LET keep == {i \in 1..Len(as) : \A j \in (i + 1)..Len(as) : as[j].Key # as[i].Key}
        F[i \in 0..Len(as)] ==
            IF i = 0 THEN <<>>
            ELSE IF i \in keep THEN Append(F[i - 1], as[i]) ELSE F[i - 1]
    IN F[Len(as)]

FlattenAttrs(as) == DedupLast(FlattenRaw(EmptyStr, as))

\* Stable sort on the key (insertion sort: an element goes after every element
\* that is not greater).
RECURSIVE InsertSorted(_, _)
InsertSorted(sorted, a) ==
    IF sorted = <<>> THEN <<a>>
    ELSE IF StrLess(a.Key, Head(sorted).Key) THEN <<a>> \o sorted
    ELSE <<Head(sorted)>> \o InsertSorted(Tail(sorted), a)

RECURSIVE SortAttrs(_)
SortAttrs(as) ==
    IF as = <<>> THEN <<>>
    ELSE InsertSorted(SortAttrs(SubSeq(as, 1, Len(as) - 1)), as[Len(as)])

\* The inherited attributes (already nested under the groups that were open
\* when they were attached), then the record's own attributes.
ConsolidateAttrs(handlerAttrs, activeGroup, r) == handlerAttrs \o r.Attrs

----------------------------------------------------------------------------
(* formatter.go *)

SlackMessageFormatterSourcePrefix == <<"Source:\t\t\t">>
SlackMessageFormatterTimePrefix == <<"Occurred at:\t">>

\* A renderer hook is a user function; what matters of it is whether it is
\* set and whether it fails.  "nil": unset (the slogx default renderer is
\* used, which does not fail); "slack": formatSlackMessageLevelDefault;
\* "ok": a user function that succeeds; "err": a user function that fails.
\* An attribute hook that succeeds either returns the key it was given
\* ("ok": the leaf key, without its group) or the whole dotted key ("keep").
formatSlackMessageLevelDefault(level) ==
    CASE level = "trace" -> <<":eyes: trace">>
      [] level = "debug" -> <<":ladybug: debug">>
      [] level = "info" -> <<":information_source: info">>
      [] level = "notice" -> <<":grey_exclamation: notice">>
      [] level = "warn" -> <<":warning: warn">>
      [] level = "error" -> <<":no_entry: error">>
      [] level = "fatal" -> <<":rotating_light: fatal">>
      [] level = "panic" -> <<":sos: panic">>
      [] OTHER -> <<level>>

DefaultSlackMessageFormatterOptions ==
    [ ApplicationIconURL |-> EmptyStr,
      ApplicationName |-> EmptyStr,
      AttrFormatter |-> "nil",
      IgnoreAttrs |-> <<>>,
      IncludeAttrs |-> TRUE,
      IncludeSource |-> FALSE,
      LevelFormatter |-> "slack",
      SortAttrs |-> TRUE,
      SourcePrefix |-> SlackMessageFormatterSourcePrefix,
      SourceFormatter |-> "ok",
      SpecificAttrFormatter |-> <<>>,
      TimePrefix |-> SlackMessageFormatterTimePrefix,
      TimeFormatter |-> "ok" ]

\* regexp.Compile of an ignore pattern.  A pattern is [valid, sub]: one that
\* compiles is a literal, which matches a key iff the key contains it.
Compiles(p) == p.valid
MatchString(p, key) == Contains(key, p.sub)

\* SpecificAttrFormatter is a map from key to hook, held as a sequence of
\* [key, fn] pairs with distinct keys.
HasSpecific(opts, key) == \E i \in 1..Len(opts.SpecificAttrFormatter) : opts.SpecificAttrFormatter[i].key = key
SpecificOf(opts, key) ==
    opts.SpecificAttrFormatter[CHOOSE i \in 1..Len(opts.SpecificAttrFormatter) :
                                   opts.SpecificAttrFormatter[i].key = key].fn

NewSlackMessageFormatter(opts) ==
    LET o1 == IF opts.TimePrefix = EmptyStr
              THEN [opts EXCEPT !.TimePrefix = SlackMessageFormatterTimePrefix] ELSE opts
        o2 == IF o1.IncludeSource /\ o1.SourcePrefix = EmptyStr
              THEN [o1 EXCEPT !.SourcePrefix = SlackMessageFormatterSourcePrefix] ELSE o1
    IN [ ignoredAttrPatterns |-> SelectSeq(opts.IgnoreAttrs, Compiles),
         options |-> o2 ]

DefaultSlackMessageFormatter == NewSlackMessageFormatter(DefaultSlackMessageFormatterOptions)

\* slack blocks and their elements
TextBlockObject(text) == [Type |-> "mrkdwn", Text |-> text, ImageURL |-> EmptyStr, AltText |-> EmptyStr]
ImageBlockElement(url, alt) == [Type |-> "image", Text |-> <<>>, ImageURL |-> url, AltText |-> alt]
DividerBlock == [Type |-> "divider", Elements |-> <<>>, Text |-> <<>>]
ContextBlock(elements) == [Type |-> "context", Elements |-> elements, Text |-> <<>>]
SectionBlock(text) == [Type |-> "section", Elements |-> <<>>, Text |-> text]

NilMessage == [nil |-> TRUE, Blocks |-> <<>>]
Message(blocks) == [nil |-> FALSE, Blocks |-> blocks]

\* the backquote character of the "*key*: `value`" markup
Backquote == <<"bq">>

\* the text of a value, by kind (the switch of attrToElement)
ValueText(v) ==
    CASE v.Kind = "Bool" -> v.val
      [] v.Kind = "String" -> v.val
      [] v.Kind = "Duration" -> v.val
      [] v.Kind = "Time" -> v.val
      [] v.Kind = "Float64" -> v.val
      [] v.Kind = "Int64" -> v.val
      [] v.Kind = "Uint64" -> v.val
      [] v.Kind = "Group" -> <<"group">>
      [] OTHER -> v.val

\* a key that no pattern ignores
IgnoredNever(f, attrKey) == FALSE

\* the key matches one of the compiled ignore patterns
Ignored(f, attrKey) ==
    \E i \in 1..Len(f.ignoredAttrPatterns) : MatchString(f.ignoredAttrPatterns[i], attrKey)

\* attrToElement: [nil, element, err, called]; nil with no error means
\* "ignored"; called names what the call invoked on the attribute, in order:
\* the hook for the exact key or the generic one, the value's MarshalText.
attrToElement(f, level, attrKey, attrValue) ==
    LET ignored == Ignored(f, attrKey)
        groupIndex == LastDot(attrKey)
        group == IF groupIndex # -1 THEN SubSeq(attrKey, 1, groupIndex) ELSE EmptyStr
        actualAttrKey == IF groupIndex # -1 THEN SubSeq(attrKey, groupIndex + 2, Len(attrKey)) ELSE attrKey
        specific == HasSpecific(f.options, attrKey) /\ SpecificOf(f.options, attrKey) # "nil"
        fn == IF specific THEN SpecificOf(f.options, attrKey) ELSE f.options.AttrFormatter
        formattedKey == CASE fn = "ok" -> actualAttrKey
                          [] fn = "keep" -> JoinKey(group, actualAttrKey)
                          [] OTHER -> attrKey
        formattedValue == attrValue
        text == <<"*">> \o formattedKey \o <<"*", ":", " ">> \o Backquote
                    \o ValueText(formattedValue) \o Backquote
        none == TextBlockObject(<<>>)
        hooked == IF fn = "nil" THEN <<>>
                  ELSE <<[key |-> attrKey, what |-> IF specific THEN "SpecificAttrFormatter" ELSE "AttrFormatter"]>>
        marshalled == IF formattedValue.Kind = "Any" /\ formattedValue.marshal # "none"
                      THEN <<[key |-> attrKey, what |-> "MarshalText"]>> ELSE <<>>
    IN IF ignored THEN [nil |-> TRUE, element |-> none, err |-> "nil", called |-> <<>>]
       ELSE IF fn = "err" THEN [nil |-> TRUE, element |-> none, err |-> "attrErr", called |-> hooked]
       ELSE IF formattedValue.Kind = "Any" /\ formattedValue.marshal = "err"
            THEN [nil |-> TRUE, element |-> none, err |-> "marshalErr", called |-> hooked \o marshalled]
       ELSE [nil |-> FALSE, element |-> TextBlockObject(text), err |-> "nil", called |-> hooked \o marshalled]

\* the loop over the flattened attributes: the blocks so far, the first
\* error, if any (the loop returns at once on an error), and what was
\* invoked on the attributes
RECURSIVE AttrBlocks(_, _, _, _, _)
AttrBlocks(f, level, flat, blocks, calls) ==
    IF flat = <<>> THEN [err |-> "nil", blocks |-> blocks, calls |-> calls]
    ELSE LET e == attrToElement(f, level, Head(flat).Key, Head(flat).Value)
         IN IF e.err # "nil" THEN [err |-> e.err, blocks |-> blocks, calls |-> calls \o e.called]
            ELSE AttrBlocks(f, level, Tail(flat),
                            IF e.nil THEN blocks ELSE Append(blocks, ContextBlock(<<e.element>>)),
                            calls \o e.called)

\* a field hook whose error is dropped
HookErrSwallowed(fn, name) == "nil"

\* The result of a field hook: the slogx default and the package's own level
\* renderer do not fail.
HookErr(fn, name) == IF fn = "err" THEN name ELSE "nil"
LevelText(fn, level) == IF fn = "slack" THEN formatSlackMessageLevelDefault(level) ELSE <<level>>

\* a message part without its divider
MessageBlocksNoDivider(msg) == <<SectionBlock(msg)>>

\* the blocks of the message text
MessageBlocks(msg) == <<DividerBlock, SectionBlock(msg)>>

FormatRecord(f, timestamp, level, pc, msg, attrs) ==
    LET o == f.options
        b0 == <<DividerBlock>>
        icon == IF o.ApplicationIconURL # EmptyStr
                THEN <<ImageBlockElement(o.ApplicationIconURL, o.ApplicationName)>> ELSE <<>>
        name == IF o.ApplicationName # EmptyStr
                THEN <<TextBlockObject(o.ApplicationName)>> ELSE <<>>
        levelErr == HookErr(o.LevelFormatter, "levelErr")
        appLevelContextElements ==
            icon \o name \o <<TextBlockObject(LevelText(o.LevelFormatter, level))>>
        b1 == Append(b0, ContextBlock(appLevelContextElements))
        timeErr == HookErr(o.TimeFormatter, "timeErr")
        sourceErr == IF o.IncludeSource THEN HookErr(o.SourceFormatter, "sourceErr") ELSE "nil"
        timeSourceText ==
            o.TimePrefix \o <<timestamp>>
              \o (IF o.IncludeSource THEN <<"\n">> \o o.SourcePrefix \o <<pc>> ELSE <<>>)
        b2 == Append(b1, ContextBlock(<<TextBlockObject(timeSourceText)>>))
        b3 == b2 \o MessageBlocks(msg)
        sorted == IF o.SortAttrs THEN SortAttrs(attrs) ELSE attrs
        flattenedAttrs == FlattenAttrs(sorted)
        loop == IF o.IncludeAttrs THEN AttrBlocks(f, level, flattenedAttrs, b3, <<>>)
                ELSE [err |-> "nil", blocks |-> b3, calls |-> <<>>]
    IN IF levelErr # "nil" THEN [message |-> NilMessage, err |-> levelErr, calls |-> <<>>]
       ELSE IF timeErr # "nil" THEN [message |-> NilMessage, err |-> timeErr, calls |-> <<>>]
       ELSE IF sourceErr # "nil" THEN [message |-> NilMessage, err |-> sourceErr, calls |-> <<>>]
       ELSE IF loop.err # "nil" THEN [message |-> NilMessage, err |-> loop.err, calls |-> loop.calls]
       ELSE [message |-> Message(loop.blocks), err |-> "nil", calls |-> loop.calls]

----------------------------------------------------------------------------
(* Go slices.  A slice is a header [arr, len, cap]; arr indexes a heap of   *)
(* backing arrays (0: no array, the empty literal).  append writes in       *)
(* place when the capacity allows and otherwise copies to a new array,      *)
(* whose capacity is the runtime's: doubled (or the needed length when      *)
(* that is more), rounded up to an allocation size class.                   *)

EmptySlice == [arr |-> 0, len |-> 0, cap |-> 0]

ReadSlice(heap, s) == [i \in 1..s.len |-> heap[s.arr][i]]

SizeClasses == {8, 16, 24, 32, 48, 64, 80, 96, 112, 128, 144, 160, 176, 192, 208, 224,
                240, 256, 288, 320, 352, 384, 416, 448, 480, 512, 576, 640, 704, 768,
                896, 1024}

RoundUpSize(n) == CHOOSE c \in SizeClasses : c >= n /\ \A d \in SizeClasses : d >= n => c <= d

GrowCap(oldCap, newLen, size) ==
    LET doublecap == oldCap + oldCap
        newcap == IF newLen > doublecap THEN newLen ELSE doublecap
    IN RoundUpSize(newcap * size) \div size

\* the header append(s, elems...) returns
AppendSlice(heap, s, elems, size) ==
    LET newLen == s.len + Len(elems)
    IN IF newLen <= s.cap THEN [s EXCEPT !.len = newLen]
       ELSE [arr |-> Len(heap) + 1, len |-> newLen, cap |-> GrowCap(s.cap, newLen, size)]

\* the heap after append(s, elems...); zero fills the unused capacity
AppendHeap(heap, s, elems, size, zero) ==
    LET newLen == s.len + Len(elems)
    IN IF newLen <= s.cap
       THEN IF elems = <<>> THEN heap
            ELSE [heap EXCEPT ![s.arr] =
                     [i \in 1..s.cap |-> IF i > s.len /\ i <= newLen THEN elems[i - s.len] ELSE @[i]]]
       ELSE Append(heap,
                   [i \in 1..GrowCap(s.cap, newLen, size) |->
                       IF i <= s.len THEN heap[s.arr][i]
                       ELSE IF i <= newLen THEN elems[i - s.len]
                       ELSE zero])

\* the sizes in bytes of a slog.Attr, an async.Future and a string
AttrSize == 40
FutureSize == 16
StringSize == 16

----------------------------------------------------------------------------
(* handler.go *)

\* what the last API call returned; the fields a call does not set keep
\* these values
NoLast ==
    [ op |-> "none", h |-> 0, new |-> 0, err |-> "nil", posted |-> FALSE,
      rec |-> <<>>, deliver |-> "nil", attrs |-> <<>>, message |-> NilMessage ]

IdleShutdown == [pc |-> "idle", h |-> 0, s |-> EmptySlice, i |-> 0, cur |-> 0, started |-> {}]

NoFmt == [f |-> <<>>, rec |-> <<>>, res |-> <<>>]

Init ==
    /\ handlers = <<>>
    /\ attrsHeap = <<>>
    /\ futuresHeap = <<>>
    /\ groupsHeap = <<>>
    /\ tasks = <<>>
    /\ shutdown = IdleShutdown
    /\ last = NoLast
    /\ fmt = NoFmt
    /\ inflight = <<>>

\* what a handler shows of its attribute/group state
View(h) ==
    [ attrs |-> ReadSlice(attrsHeap, h.attrs),
      groups |-> ReadSlice(groupsHeap, h.groups),
      activeGroup |-> h.activeGroup ]

\* NewSlackHandler: the first handler.  born and chain are history: the view
\* of the handler when it was created, and the attributes attached along
\* its derivation, in order.
\* a level that is left as it was given
DefaultLevelKept(level) == level

\* the level of the handler for the level of the options
DefaultLevel(level) == IF level = "nil" THEN "info" ELSE level

NewSlackHandler(opts) ==
    /\ handlers = <<>>
    /\ IF opts.WebhookURL = EmptyStr
       THEN /\ last' = [NoLast EXCEPT !.op = "New", !.rec = opts,
                                      !.err = "webhook URL is required and cannot be empty"]
            /\ UNCHANGED handlers
       ELSE LET o1 == IF opts.HTTPClient = "nil" THEN [opts EXCEPT !.HTTPClient = "DefaultClient"] ELSE opts
                o2 == [o1 EXCEPT !.Level = DefaultLevel(o1.Level)]
            IN /\ handlers' = << [ activeGroup |-> EmptyStr,
                                   attrs |-> EmptySlice,
                                   futures |-> EmptySlice,
                                   groups |-> EmptySlice,
                                   options |-> o2,
                                   parent |-> 0,
                                   born |-> [attrs |-> <<>>, groups |-> <<>>, activeGroup |-> EmptyStr],
                                   chain |-> <<>> ] >>
               /\ last' = [NoLast EXCEPT !.op = "New", !.rec = opts, !.new = 1]
    /\ UNCHANGED <<attrsHeap, futuresHeap, groupsHeap, tasks, shutdown, fmt, inflight>>

\* the attributes WithAttrs appends
Attached(h, attrs) == IF h.activeGroup = EmptyStr THEN attrs ELSE <<Group(h.activeGroup, attrs)>>

\* the active group of the handler WithAttrs returns
WithAttrsActiveGroup(h) == IF h.activeGroup = EmptyStr THEN EmptyStr ELSE h.activeGroup

WithAttrs(i, attrs) ==
    LET h == handlers[i]
        newAttrs == AppendSlice(attrsHeap, h.attrs, Attached(h, attrs), AttrSize)
        heap == AppendHeap(attrsHeap, h.attrs, Attached(h, attrs), AttrSize, ZeroAttr)
        newHandler ==
            [ activeGroup |-> WithAttrsActiveGroup(h),
              attrs |-> newAttrs,
              futures |-> h.futures,
              groups |-> h.groups,
              options |-> h.options,
              parent |-> i,
              born |-> [ attrs |-> ReadSlice(heap, newAttrs),
                         groups |-> ReadSlice(groupsHeap, h.groups),
                         activeGroup |-> WithAttrsActiveGroup(h) ],
              chain |-> h.chain \o Attached(h, attrs) ]
    IN /\ attrsHeap' = heap
       /\ handlers' = Append(handlers, newHandler)
       /\ last' = [NoLast EXCEPT !.op = "WithAttrs", !.h = i, !.new = Len(handlers) + 1, !.attrs = attrs]
       /\ UNCHANGED <<futuresHeap, groupsHeap, tasks, shutdown, fmt, inflight>>

\* the active group of the handler WithGroup returns
WithGroupActiveGroup(h, name) == IF name # EmptyStr THEN name ELSE EmptyStr

WithGroup(i, name) ==
    LET h == handlers[i]
        pushed == IF name # EmptyStr THEN <<name>> ELSE <<>>
        newGroups == AppendSlice(groupsHeap, h.groups, pushed, StringSize)
        heap == AppendHeap(groupsHeap, h.groups, pushed, StringSize, EmptyStr)
        newHandler ==
            [ activeGroup |-> WithGroupActiveGroup(h, name),
              attrs |-> h.attrs,
              futures |-> h.futures,
              groups |-> newGroups,
              options |-> h.options,
              parent |-> i,
              born |-> [ attrs |-> ReadSlice(attrsHeap, h.attrs),
                         groups |-> ReadSlice(heap, newGroups),
                         activeGroup |-> WithGroupActiveGroup(h, name) ],
              chain |-> h.chain ]
    IN /\ groupsHeap' = heap
       /\ handlers' = Append(handlers, newHandler)
       /\ last' = [NoLast EXCEPT !.op = "WithGroup", !.h = i, !.new = Len(handlers) + 1, !.rec = name]
       /\ UNCHANGED <<attrsHeap, futuresHeap, tasks, shutdown, fmt, inflight>>

\* handle: consolidate, format, post.  deliver is what the transport answers
\* if it is asked: "nil" or an error.
FormatterOf(h) ==
    IF h.options.RecordFormatter # <<>> THEN h.options.RecordFormatter[1]
    ELSE DefaultSlackMessageFormatter

\* a handle that puts the record's attributes first
HandleAttrsRecordFirst(h, r) == r.Attrs \o ReadSlice(attrsHeap, h.attrs)

\* the attributes handle gives the formatter
HandleAttrs(h, r) == ConsolidateAttrs(ReadSlice(attrsHeap, h.attrs), h.activeGroup, r)

\* a handle that posts whatever the formatter answered
HandleOutcomePostsAnyway(res, attrs, deliver) ==
    [err |-> deliver, posted |-> TRUE, attrs |-> attrs, message |-> res.message]

\* what handle answers for the formatter's result res
HandleOutcome(res, attrs, deliver) ==
    IF res.err # "nil"
    THEN [err |-> res.err, posted |-> FALSE, attrs |-> attrs, message |-> res.message]
    ELSE [err |-> deliver, posted |-> TRUE, attrs |-> attrs, message |-> res.message]

handle(h, r, deliver) ==
    LET attrs == HandleAttrs(h, r)
        f == FormatterOf(h)
        res == FormatRecord(f, r.Time, r.Level, r.PC, r.Message, attrs)
    IN HandleOutcome(res, attrs, deliver)

\* what Handle returns in asynchronous mode
AsyncReturn == "nil"

\* a Handle that does not keep the future
RetainedNone(future) == <<>>

\* the futures Handle appends for the future async.Exec returned
Retained(future) == <<future>>

Handle(i, r, deliver) ==
    LET h == handlers[i]
    IN IF ~h.options.EnableAsync
       THEN LET out == handle(h, r, deliver)
            IN /\ last' = [NoLast EXCEPT !.op = "Handle", !.h = i, !.err = out.err, !.posted = out.posted,
                                         !.rec = r, !.deliver = deliver, !.attrs = out.attrs, !.message = out.message]
               /\ UNCHANGED <<handlers, attrsHeap, futuresHeap, groupsHeap, tasks, shutdown, fmt, inflight>>
       ELSE LET future == Len(tasks) + 1
            IN /\ tasks' = Append(tasks, [owner |-> i, rec |-> r, done |-> FALSE, ret |-> "nil", posted |-> FALSE])
               /\ futuresHeap' = AppendHeap(futuresHeap, h.futures, Retained(future), FutureSize, 0)
               /\ handlers' = [handlers EXCEPT ![i].futures =
                                  AppendSlice(futuresHeap, h.futures, Retained(future), FutureSize)]
               /\ last' = [NoLast EXCEPT !.op = "Handle", !.h = i, !.err = AsyncReturn, !.rec = r, !.new = future]
               /\ UNCHANGED <<attrsHeap, groupsHeap, shutdown, fmt, inflight>>

\* the goroutine of a future runs handle to its end
TaskRun(t, deliver) ==
    /\ ~tasks[t].done
    /\ LET out == handle(handlers[tasks[t].owner], tasks[t].rec, deliver)
       IN tasks' = [tasks EXCEPT ![t].done = TRUE, ![t].ret = out.err, ![t].posted = out.posted]
    /\ UNCHANGED <<handlers, attrsHeap, futuresHeap, groupsHeap, shutdown, last, fmt, inflight>>

\* Handle in asynchronous mode, statement by statement, for callers that run
\* at the same time: async.Exec starts the goroutine; append reads h.futures;
\* the assignment writes the slice append returned to h.futures, and Handle
\* returns nil.  A call holds the future, the slice it read, and whether it
\* returned before any Shutdown was called.
HandleExec(i, r) ==
    /\ handlers[i].options.EnableAsync
    /\ tasks' = Append(tasks, [owner |-> i, rec |-> r, done |-> FALSE, ret |-> "nil", posted |-> FALSE])
    /\ inflight' = Append(inflight, [h |-> i, future |-> Len(tasks) + 1, pc |-> "exec",
                                     seen |-> EmptySlice, beforeShutdown |-> FALSE])
    /\ UNCHANGED <<handlers, attrsHeap, futuresHeap, groupsHeap, shutdown, last, fmt>>

HandleLoad(c) ==
    /\ inflight[c].pc = "exec"
    /\ inflight' = [inflight EXCEPT ![c].pc = "loaded", ![c].seen = handlers[inflight[c].h].futures]
    /\ UNCHANGED <<handlers, attrsHeap, futuresHeap, groupsHeap, tasks, shutdown, last, fmt>>

HandleStore(c) ==
    LET call == inflight[c]
    IN /\ call.pc = "loaded"
       /\ futuresHeap' = AppendHeap(futuresHeap, call.seen, Retained(call.future), FutureSize, 0)
       /\ handlers' = [handlers EXCEPT ![call.h].futures =
                          AppendSlice(futuresHeap, call.seen, Retained(call.future), FutureSize)]
       /\ inflight' = [inflight EXCEPT ![c].pc = "returned", ![c].beforeShutdown = (shutdown.pc = "idle")]
       /\ last' = [NoLast EXCEPT !.op = "Handle", !.h = call.h, !.err = AsyncReturn,
                                 !.rec = tasks[call.future].rec, !.new = call.future]
       /\ UNCHANGED <<attrsHeap, groupsHeap, tasks, shutdown, fmt>>

\* the futures Shutdown ranges over: the receiver's own slice
ShutdownRange(h) == h.futures

\* Shutdown is called: the receiver is copied, and the loop reads its first
\* future.  started is history: the tasks running or run by then.
ShutdownCall(i) ==
    LET s == ShutdownRange(handlers[i])
    IN /\ shutdown.pc # "awaiting"
       /\ shutdown' = [ pc |-> IF s.len = 0 THEN "returned" ELSE "awaiting",
                        h |-> i, s |-> s,
                        i |-> IF s.len = 0 THEN 0 ELSE 1,
                        cur |-> IF s.len = 0 THEN 0 ELSE futuresHeap[s.arr][1],
                        started |-> 1..Len(tasks) ]
       /\ UNCHANGED <<handlers, attrsHeap, futuresHeap, groupsHeap, tasks, last, fmt, inflight>>

\* f.Await() returns (or f is nil); the loop reads the next future, or ends
ShutdownAwait ==
    /\ shutdown.pc = "awaiting"
    /\ shutdown.cur = 0 \/ tasks[shutdown.cur].done
    /\ shutdown' =
         IF shutdown.i = shutdown.s.len
         THEN [shutdown EXCEPT !.pc = "returned", !.cur = 0]
         ELSE [shutdown EXCEPT !.i = @ + 1, !.cur = futuresHeap[shutdown.s.arr][shutdown.i + 1]]
    /\ UNCHANGED <<handlers, attrsHeap, futuresHeap, groupsHeap, tasks, last, fmt, inflight>>

\* One FormatRecord call on a formatter built by NewSlackMessageFormatter.
Format(opts, r) ==
    /\ LET f == NewSlackMessageFormatter(opts)
       IN fmt' = [f |-> f, rec |-> r, res |-> FormatRecord(f, r.Time, r.Level, r.PC, r.Message, r.Attrs)]
    /\ UNCHANGED <<handlers, attrsHeap, futuresHeap, groupsHeap, tasks, shutdown, last, inflight>>

----------------------------------------------------------------------------
(* The inputs.                                                              *)

KeyK == <<"k">>
KeyJ == <<"j">>
KeyA == <<"a">>
GrpG == <<"g">>
GrpH == <<"h">>
V1 == <<"v1">>
V2 == <<"v2">>

AttrK1 == Attr(KeyK, StringValue(V1))
AttrK2 == Attr(KeyK, StringValue(V2))
AttrJ == Attr(KeyJ, StringValue(V1))

Record(attrs) == [Time |-> "time", Level |-> "info", PC |-> "pc", Message |-> <<"hello">>, Attrs |-> attrs]

\* the batches given to WithAttrs
Batches == {<<AttrK1>>, <<AttrK2>>, <<AttrK1, AttrJ>>}

\* records: without attributes, repeating the key k, repeating it inside the
\* group g, and carrying the key j
Records == {Record(<<>>), Record(<<AttrK2>>), Record(<<Group(GrpG, <<AttrK2>>)>>), Record(<<AttrJ>>)}

\* what the transport answers
Deliveries == {"nil", "postErr"}

\* Formatters: one whose hook for the key j fails, one that leaves the
\* attributes out, one that ignores the keys that contain "j".
FailsOnJ ==
    NewSlackMessageFormatter([DefaultSlackMessageFormatterOptions EXCEPT
                                 !.SpecificAttrFormatter = <<[key |-> KeyJ, fn |-> "err"]>>])
NoAttrs == NewSlackMessageFormatter([DefaultSlackMessageFormatterOptions EXCEPT !.IncludeAttrs = FALSE])
IgnoresJ ==
    NewSlackMessageFormatter([DefaultSlackMessageFormatterOptions EXCEPT
                                 !.IgnoreAttrs = <<[valid |-> TRUE, sub |-> KeyJ]>>])

HandlerOptions(async, url, level, formatter) ==
    [ EnableAsync |-> async, HTTPClient |-> "nil", Level |-> level,
      RecordFormatter |-> formatter, WebhookURL |-> url ]

URL == <<"u">>

----------------------------------------------------------------------------
(* Synchronous handlers: every derivation and every record, with a small    *)
(* number of handlers.                                                      *)

MaxHandlers == 3

SyncBatches == {<<AttrK1>>, <<AttrK1, AttrJ>>}
SyncGroupNames == {EmptyStr, GrpG}

SyncOptions ==
    { HandlerOptions(FALSE, url, "nil", f) :
        url \in {EmptyStr, URL}, f \in {<<>>, <<FailsOnJ>>, <<NoAttrs>>, <<IgnoresJ>>} }

NextSync ==
    \/ \E opts \in SyncOptions : NewSlackHandler(opts)
    \/ /\ Len(handlers) < MaxHandlers
       /\ \E i \in 1..Len(handlers) : \E attrs \in SyncBatches : WithAttrs(i, attrs)
    \/ /\ Len(handlers) < MaxHandlers
       /\ \E i \in 1..Len(handlers) : \E name \in SyncGroupNames : WithGroup(i, name)
    \/ \E i \in 1..Len(handlers) : \E r \in Records : \E d \in Deliveries : Handle(i, r, d)

SpecSync == Init /\ [][NextSync]_vars

----------------------------------------------------------------------------
(* Claims on synchronous handlers                                           *)

\* the last call was a synchronous Handle
SyncHandled == last.op = "Handle" /\ ~handlers[last.h].options.EnableAsync

\* C5: in synchronous mode Handle returns the transport's error unchanged
\* when the transport fails and no error when it succeeds; when the formatter
\* returns an error, Handle returns that error and posts nothing; and a
\* Handle call leaves every handler's attribute/group state as it was (so a
\* later call is answered from the same state).
C5_SyncOutcome ==
    SyncHandled =>
        LET h == handlers[last.h]
            r == last.rec
            res == FormatRecord(FormatterOf(h), r.Time, r.Level, r.PC, r.Message,
                                ReadSlice(attrsHeap, h.attrs) \o r.Attrs)
        IN IF res.err # "nil"
           THEN last.err = res.err /\ ~last.posted
           ELSE last.posted /\ last.err = last.deliver

C5_SyncHandle ==
    /\ []C5_SyncOutcome
    /\ [][last'.op = "Handle" => <<handlers, attrsHeap, groupsHeap>>' = <<handlers, attrsHeap, groupsHeap>>]_vars

\* C5 witness: a synchronous Handle whose formatter failed on a handler with
\* inherited attributes
C5_Witness ==
    /\ SyncHandled
    /\ last.err = "attrErr"
    /\ ~last.posted
    /\ handlers[last.h].attrs.len > 0

\* the text of the entry of a key in a message, and how it begins
EntryPrefix(key) == <<"*">> \o key \o <<"*">>
EntryText(key, value) == EntryPrefix(key) \o <<":", " ">> \o Backquote \o ValueText(value) \o Backquote

HasPrefix(s, prefix) == Len(s) >= Len(prefix) /\ SubSeq(s, 1, Len(prefix)) = prefix

\* the texts of the blocks that follow the five leading blocks
Entries(message) == [i \in 1..(Len(message.Blocks) - 5) |-> message.Blocks[i + 5].Elements[1].Text]

\* the formatter renders the key: attributes are included and no ignore
\* pattern matches it
Rendered(f, key) ==
    /\ f.options.IncludeAttrs
    /\ \A i \in 1..Len(f.ignoredAttrPatterns) : ~MatchString(f.ignoredAttrPatterns[i], key)

\* the leaves of the handler's attributes followed by the record's, in
\* iteration order, duplicates included
LeavesOfLast == FlattenRaw(EmptyStr, ReadSlice(attrsHeap, handlers[last.h].attrs) \o last.rec.Attrs)

\* C9: attributes duplicated between the handler's inherited attributes and
\* the record, also inside groups, are deduplicated: for every flattened key
\* that the formatter renders, the message of a successful Handle holds
\* exactly one entry, and its value is that of the last occurrence of the key
\* (inherited attributes first, then the record's).
C9_Deduplicated ==
    (SyncHandled /\ ~last.message.nil) =>
        LET f == FormatterOf(handlers[last.h])
            all == LeavesOfLast
            entries == Entries(last.message)
        IN \A i \in 1..Len(all) :
              Rendered(f, all[i].Key) =>
                 LET lastIdx == CHOOSE j \in 1..Len(all) :
                                   /\ all[j].Key = all[i].Key
                                   /\ \A m \in (j + 1)..Len(all) : all[m].Key # all[i].Key
                 IN /\ Cardinality({b \in 1..Len(entries) : HasPrefix(entries[b], EntryPrefix(all[i].Key))}) = 1
                    /\ \E b \in 1..Len(entries) : entries[b] = EntryText(all[i].Key, all[lastIdx].Value)

\* C9 witness: a successful Handle where a key inside a group occurs in the
\* inherited attributes and in the record with different values, and is
\* rendered
C9_Witness ==
    /\ SyncHandled
    /\ ~last.message.nil
    /\ \E i, j \in 1..Len(LeavesOfLast) :
          /\ i <= handlers[last.h].attrs.len
          /\ i < j
          /\ LeavesOfLast[i].Key = LeavesOfLast[j].Key
          /\ LeavesOfLast[i].Value # LeavesOfLast[j].Value
          /\ LastDot(LeavesOfLast[i].Key) # -1
          /\ Rendered(FormatterOf(handlers[last.h]), LeavesOfLast[i].Key)

\* C7: WithGroup with an empty name returns a handler with the receiver's
\* inherited attributes, open groups and active group, whatever the receiver;
\* with a non-empty name the returned handler has the name pushed on the open
\* groups and as its active group.
C7_WithGroup ==
    last.op = "WithGroup" =>
        LET h == handlers[last.h]
            n == handlers[last.new]
        IN IF last.rec = EmptyStr
           THEN View(n) = View(h)
           ELSE /\ View(n).attrs = View(h).attrs
                /\ View(n).groups = Append(View(h).groups, last.rec)
                /\ View(n).activeGroup = last.rec

----------------------------------------------------------------------------
(* Derivation chains: synchronous handlers with the default formatter, more *)
(* handlers, every batch and every non-empty group name.                    *)

MaxChain == 5

DeriveGroupNames == {GrpG, GrpH}
DeriveRecords == {Record(<<AttrK2>>)}

NextDerive ==
    \/ NewSlackHandler(HandlerOptions(FALSE, URL, "nil", <<>>))
    \/ /\ Len(handlers) < MaxChain
       /\ \E i \in 1..Len(handlers) : \E attrs \in Batches : WithAttrs(i, attrs)
    \/ /\ Len(handlers) < MaxChain
       /\ \E i \in 1..Len(handlers) : \E name \in DeriveGroupNames : WithGroup(i, name)
    \/ \E i \in 1..Len(handlers) : \E r \in DeriveRecords : Handle(i, r, "nil")

SpecDerive == Init /\ [][NextDerive]_vars

\* C3: whatever handlers are derived afterwards, every handler shows the
\* inherited attributes, open groups and active group it had when it was
\* created.
C3_Immutable == \A i \in 1..Len(handlers) : View(handlers[i]) = handlers[i].born

\* the names of a group path joined with "."
RECURSIVE JoinPath(_)
JoinPath(names) ==
    IF names = <<>> THEN EmptyStr
    ELSE JoinKey(JoinPath(SubSeq(names, 1, Len(names) - 1)), names[Len(names)])

Keys(as) == [i \in 1..Len(as) |-> as[i].Key]

\* C6: the attributes WithAttrs attaches are nested one level per open group
\* of the receiver, most recently opened innermost: each flattens to the
\* dot-joined path of all open groups followed by its key (g1.g2.k after
\* WithGroup(g1).WithGroup(g2).WithAttrs([k])).
C6_NestedPerOpenGroup ==
    last.op = "WithAttrs" =>
        LET h == handlers[last.h]
            n == handlers[last.new]
            attached == SubSeq(View(n).attrs, h.attrs.len + 1, n.attrs.len)
            path == JoinPath(View(h).groups)
            given == FlattenRaw(EmptyStr, last.attrs)
        IN Keys(FlattenRaw(EmptyStr, attached)) = [i \in 1..Len(given) |-> JoinKey(path, given[i].Key)]

\* C8: the attributes Handle gives the formatter are the handler's inherited
\* attributes in the order they were attached (each WithAttrs batch as it
\* was when no group was open, wrapped as one group named by the active
\* group otherwise), followed by the record's own attributes.
C8_InheritedThenRecord ==
    SyncHandled => last.attrs = handlers[last.h].chain \o last.rec.Attrs

----------------------------------------------------------------------------
(* Asynchronous handlers: Handle, the goroutines and Shutdown, with records *)
(* whose formatting or delivery fails.                                      *)

MaxAsyncHandlers == 2
MaxAsyncTasks == 2

AsyncRecords == {Record(<<>>), Record(<<AttrJ>>)}

NextAsync ==
    \/ NewSlackHandler(HandlerOptions(TRUE, URL, "nil", <<FailsOnJ>>))
    \/ /\ Len(handlers) < MaxAsyncHandlers
       /\ \E i \in 1..Len(handlers) : WithAttrs(i, <<AttrK1>>)
    \/ /\ Len(handlers) < MaxAsyncHandlers
       /\ \E i \in 1..Len(handlers) : WithGroup(i, GrpG)
    \/ /\ Len(tasks) < MaxAsyncTasks
       /\ \E i \in 1..Len(handlers) : \E r \in AsyncRecords : Handle(i, r, "nil")
    \/ \E t \in 1..Len(tasks) : \E d \in Deliveries : TaskRun(t, d)
    \/ \E i \in 1..Len(handlers) : ShutdownCall(i)
    \/ ShutdownAwait

SpecAsync == Init /\ [][NextAsync]_vars

\* C4: in asynchronous mode Handle returns no error without waiting for the
\* delivery (the goroutine it started has not ended when it returns, and may
\* later succeed or fail), and adds exactly one future, that of the
\* goroutine, to the receiver's futures.
C4_AsyncHandle ==
    [][(last' # last /\ last'.op = "Handle" /\ handlers[last'.h].options.EnableAsync) =>
          /\ last'.err = "nil"
          /\ Len(tasks') = Len(tasks) + 1
          /\ ~tasks'[Len(tasks')].done
          /\ ReadSlice(futuresHeap', handlers'[last'.h].futures)
               = Append(ReadSlice(futuresHeap, handlers[last'.h].futures), Len(tasks'))]_vars

\* C4 witness: the goroutine of the last asynchronous Handle, which returned
\* no error, has ended with an error
C4_Witness ==
    /\ last.op = "Handle"
    /\ handlers[last.h].options.EnableAsync
    /\ last.err = "nil"
    /\ tasks[last.new].done
    /\ tasks[last.new].ret # "nil"

----------------------------------------------------------------------------
(* Draining: asynchronous handlers with enough Handle calls for a futures   *)
(* slice to have spare capacity.                                            *)

MaxDrainHandlers == 2
MaxDrainTasks == 5

NextDrain ==
    \/ NewSlackHandler(HandlerOptions(TRUE, URL, "nil", <<>>))
    \/ /\ Len(handlers) < MaxDrainHandlers
       /\ \E i \in 1..Len(handlers) : WithGroup(i, GrpG)
    \/ /\ Len(tasks) < MaxDrainTasks
       /\ \E i \in 1..Len(handlers) : Handle(i, Record(<<>>), "nil")
    \/ \E t \in 1..Len(tasks) : TaskRun(t, "nil")
    \/ \E i \in 1..Len(handlers) : ShutdownCall(i)
    \/ ShutdownAwait

SpecDrain == Init /\ [][NextDrain]_vars

\* i is j or was derived from j, directly or not
RECURSIVE DerivedFrom(_, _)
DerivedFrom(i, j) == i = j \/ (i > j /\ DerivedFrom(handlers[i].parent, j))

\* C1: when Shutdown of a handler has returned, every goroutine that a
\* Handle call on that handler started before Shutdown was called has ended,
\* whatever other handlers were derived and used in between.
C1_ShutdownAwaitsOwn ==
    shutdown.pc = "returned" =>
        \A t \in shutdown.started : tasks[t].owner = shutdown.h => tasks[t].done

\* C2: when Shutdown of a handler has returned, every goroutine started
\* before Shutdown was called by a Handle call on that handler or on a
\* handler derived from it has ended.
C2_ShutdownAwaitsDerived ==
    shutdown.pc = "returned" =>
        \A t \in shutdown.started : DerivedFrom(tasks[t].owner, shutdown.h) => tasks[t].done

----------------------------------------------------------------------------
(* The formatter alone: one FormatRecord call for every formatter and every *)
(* attribute sequence of the bounds.                                        *)

MaxFmtAttrs == 2

AttrFailing == Attr(KeyA, AnyValue(V1, "err"))
FmtAttrs == {AttrK1, AttrJ, Group(GrpG, <<AttrK2, AttrJ>>), Group(GrpH, <<>>), AttrFailing}

SeqsUpTo(S, n) == UNION {[1..m -> S] : m \in 0..n}

\* ignore patterns: none; one that does not compile and one that matches the
\* keys with a "g"; one that matches the keys with a "j"; one that matches
\* the keys with an "a"
IgnoreLists ==
    { <<>>,
      <<[valid |-> FALSE, sub |-> KeyK], [valid |-> TRUE, sub |-> GrpG]>>,
      <<[valid |-> TRUE, sub |-> KeyJ]>>,
      <<[valid |-> TRUE, sub |-> KeyA]>> }

\* the hooks: all succeeding, or one of them failing
Hooks(lf, tf, sf, af, spf) == [lf |-> lf, tf |-> tf, sf |-> sf, af |-> af, spf |-> spf]
HookSets ==
    { Hooks("slack", "ok", "ok", "nil", <<>>),
      Hooks("nil", "nil", "nil", "ok", <<>>),
      Hooks("ok", "ok", "ok", "keep", <<[key |-> KeyJ, fn |-> "ok"]>>),
      Hooks("err", "ok", "ok", "nil", <<>>),
      Hooks("slack", "err", "ok", "nil", <<>>),
      Hooks("slack", "ok", "err", "nil", <<>>),
      Hooks("slack", "ok", "ok", "err", <<[key |-> KeyK, fn |-> "nil"]>>),
      Hooks("slack", "ok", "ok", "nil", <<[key |-> KeyJ, fn |-> "err"]>>) }

\* the application's icon and name: neither, the name, both
Applications == {<<EmptyStr, EmptyStr>>, <<EmptyStr, KeyA>>, <<URL, KeyA>>}

FmtOptions ==
    { [ ApplicationIconURL |-> app[1],
        ApplicationName |-> app[2],
        AttrFormatter |-> hk.af,
        IgnoreAttrs |-> ig,
        IncludeAttrs |-> ia,
        IncludeSource |-> is,
        LevelFormatter |-> hk.lf,
        SortAttrs |-> sa,
        SourcePrefix |-> EmptyStr,
        SourceFormatter |-> hk.sf,
        SpecificAttrFormatter |-> hk.spf,
        TimePrefix |-> EmptyStr,
        TimeFormatter |-> hk.tf ] :
        app \in Applications, ig \in IgnoreLists,
        ia \in BOOLEAN, is \in BOOLEAN, sa \in BOOLEAN, hk \in HookSets }

\* one call in a behaviour
NextFmt ==
    /\ fmt = NoFmt
    /\ \E opts \in FmtOptions : \E attrs \in SeqsUpTo(FmtAttrs, MaxFmtAttrs) : Format(opts, Record(attrs))

SpecFmt == Init /\ [][NextFmt]_vars

\* FormatRecord was called and returned a message
Formatted == fmt # NoFmt /\ fmt.res.err = "nil"

\* the flattened attributes that no ignore pattern that compiles matches
Surviving(opts, attrs) ==
    LET flat == FlattenAttrs(IF opts.SortAttrs THEN SortAttrs(attrs) ELSE attrs)
        matched(a) == \E i \in 1..Len(opts.IgnoreAttrs) :
                         opts.IgnoreAttrs[i].valid /\ Contains(a.Key, opts.IgnoreAttrs[i].sub)
        survives(a) == ~matched(a)
    IN SelectSeq(flat, survives)

MatchesCompiled(opts, key) ==
    \E i \in 1..Len(opts.IgnoreAttrs) :
       opts.IgnoreAttrs[i].valid /\ Contains(key, opts.IgnoreAttrs[i].sub)

\* the flattened keys of the attributes given to the call
FlatKeys == {a.Key : a \in {FlattenAttrs(fmt.rec.Attrs)[i] : i \in 1..Len(FlattenAttrs(fmt.rec.Attrs))}}

\* C11: an attribute whose flattened key matches an ignore pattern that
\* compiles gets no block and has no hook (and no MarshalText) invoked on it,
\* with or without sorting and wherever it is in the sequence; the patterns
\* that do not compile are left out of the formatter and filter nothing: a
\* successful call that includes the attributes returns a block for each
\* flattened key that no compiling pattern matches, and for no other.
C11_IgnoredDropped ==
    fmt # NoFmt =>
        LET o == fmt.f.options
        IN /\ fmt.f.ignoredAttrPatterns = SelectSeq(o.IgnoreAttrs, LAMBDA p : p.valid)
           /\ \A c \in 1..Len(fmt.res.calls) : ~MatchesCompiled(o, fmt.res.calls[c].key)
           /\ (Formatted /\ o.IncludeAttrs) =>
                 Len(fmt.res.message.Blocks) - 5
                    = Cardinality({key \in FlatKeys : ~MatchesCompiled(o, key)})

\* C11 witness: a successful call, sorted, where the key j, whose hook
\* fails, is ignored after another attribute got its block, under an ignore
\* list without patterns that fail to compile
C11_Witness ==
    /\ Formatted
    /\ fmt.f.options.IncludeAttrs
    /\ fmt.f.options.SortAttrs
    /\ fmt.f.options.SpecificAttrFormatter = <<[key |-> KeyJ, fn |-> "err"]>>
    /\ fmt.rec.Attrs = <<AttrK1, AttrJ>>
    /\ MatchesCompiled(fmt.f.options, KeyJ)
    /\ Len(fmt.res.message.Blocks) = 6

\* C11 witness of the second part: a successful call whose only attribute
\* matches a pattern that does not compile, and gets its block
C11_WitnessNotCompiled ==
    /\ Formatted
    /\ fmt.f.options.IncludeAttrs
    /\ fmt.rec.Attrs = <<AttrK1>>
    /\ \E i \in 1..Len(fmt.f.options.IgnoreAttrs) :
          ~fmt.f.options.IgnoreAttrs[i].valid /\ Contains(KeyK, fmt.f.options.IgnoreAttrs[i].sub)
    /\ Len(fmt.res.message.Blocks) = 6

----------------------------------------------------------------------------
(* Handlers with formatters whose hooks fail: one handler, synchronous or   *)
(* asynchronous, and records with the attributes of the formatter runs.     *)

MaxHookTasks == 2

\* a group whose first member is rendered and whose second fails to marshal
GroupFailing == Group(GrpG, <<AttrK1, AttrFailing>>)

HookIgnoreLists == {<<>>, <<[valid |-> TRUE, sub |-> KeyJ]>>}

HookFormatters ==
    { NewSlackMessageFormatter(
        [ DefaultSlackMessageFormatterOptions EXCEPT
            !.AttrFormatter = hk.af,
            !.IgnoreAttrs = ig,
            !.IncludeAttrs = ia,
            !.IncludeSource = is,
            !.LevelFormatter = hk.lf,
            !.SourceFormatter = hk.sf,
            !.SpecificAttrFormatter = hk.spf,
            !.TimeFormatter = hk.tf ]) :
        ig \in HookIgnoreLists, ia \in BOOLEAN, is \in BOOLEAN, hk \in HookSets }

HookRecords == {Record(<<>>)} \cup {Record(<<a>>) : a \in FmtAttrs \cup {GroupFailing}}

\* the options: with or without the URL, with or without a level
HookOptions ==
    { HandlerOptions(async, url, level, <<f>>) :
        async \in BOOLEAN, url \in {EmptyStr, URL}, level \in {"nil", "warn"}, f \in HookFormatters }

NextHooks ==
    \/ \E opts \in HookOptions : NewSlackHandler(opts)
    \/ /\ Len(tasks) < MaxHookTasks
       /\ \E i \in 1..Len(handlers) : \E r \in HookRecords : \E d \in Deliveries : Handle(i, r, d)
    \/ \E t \in 1..Len(tasks) : \E d \in Deliveries : TaskRun(t, d)

SpecHooks == Init /\ [][NextHooks]_vars

\* the error of the first hook that fails when the formatter f formats the
\* attributes, "nil" when none does: the level hook, the time hook, the
\* source hook when the source is included, then, when the attributes are
\* included, for each flattened attribute that is not ignored, the hook of
\* its exact key or else the generic hook, then the value's MarshalText
FirstHookError(f, attrs) ==
    LET o == f.options
        flat == FlattenAttrs(IF o.SortAttrs THEN SortAttrs(attrs) ELSE attrs)
        hookOf(key) ==
            IF \E i \in 1..Len(o.SpecificAttrFormatter) :
                  o.SpecificAttrFormatter[i].key = key /\ o.SpecificAttrFormatter[i].fn # "nil"
            THEN (CHOOSE e \in {o.SpecificAttrFormatter[i] : i \in 1..Len(o.SpecificAttrFormatter)} :
                     e.key = key).fn
            ELSE o.AttrFormatter
        errOf(a) == IF MatchesCompiled(o, a.Key) THEN "nil"
                    ELSE IF hookOf(a.Key) = "err" THEN "attrErr"
                    ELSE IF a.Value.Kind = "Any" /\ a.Value.marshal = "err" THEN "marshalErr"
                    ELSE "nil"
        failing == {i \in 1..Len(flat) : errOf(flat[i]) # "nil"}
    IN IF o.LevelFormatter = "err" THEN "levelErr"
       ELSE IF o.TimeFormatter = "err" THEN "timeErr"
       ELSE IF o.IncludeSource /\ o.SourceFormatter = "err" THEN "sourceErr"
       ELSE IF o.IncludeAttrs /\ failing # {}
            THEN errOf(flat[CHOOSE i \in failing : \A j \in failing : i <= j])
       ELSE "nil"

\* C12: when a hook (level, time, source, the hook of the exact key, the
\* generic attribute hook, a value's MarshalText) returns an error,
\* FormatRecord returns that error and no message at all, and handle posts
\* nothing for the record, in a synchronous Handle and in the goroutine of an
\* asynchronous one.
C12_HookErrorNoMessage ==
    /\ SyncHandled =>
          LET e == FirstHookError(FormatterOf(handlers[last.h]), last.attrs)
          IN e # "nil" => (last.err = e /\ last.message = NilMessage /\ ~last.posted)
    /\ \A t \in 1..Len(tasks) :
          tasks[t].done =>
             LET e == FirstHookError(FormatterOf(handlers[tasks[t].owner]), tasks[t].rec.Attrs)
             IN e # "nil" => (tasks[t].ret = e /\ ~tasks[t].posted)

\* C12 witness: a synchronous Handle where, after the five leading blocks
\* and the block of the attribute g.k, the MarshalText of g.a failed
C12_Witness ==
    /\ SyncHandled
    /\ last.rec.Attrs = <<GroupFailing>>
    /\ FormatterOf(handlers[last.h]).options.AttrFormatter = "ok"
    /\ last.err = "marshalErr"
    /\ last.message = NilMessage
    /\ ~last.posted

\* C12 witness, asynchronous: a goroutine that ended with the error of the
\* source hook and posted nothing
C12_WitnessAsync ==
    \E t \in 1..Len(tasks) : tasks[t].done /\ tasks[t].ret = "sourceErr" /\ ~tasks[t].posted

\* C13: NewSlackHandler with an empty WebhookURL returns the configuration
\* error and no handler; with a non-empty URL it returns no error and a
\* handler with the options given, without inherited attributes, open groups
\* or active group, with no futures, and with the level info when the
\* options had none.
C13_Construction ==
    last.op = "New" =>
        IF last.rec.WebhookURL = EmptyStr
        THEN /\ last.err = "webhook URL is required and cannot be empty"
             /\ last.new = 0
             /\ handlers = <<>>
        ELSE /\ last.err = "nil"
             /\ last.new = 1
             /\ Len(handlers) = 1
             /\ View(handlers[1]) = [attrs |-> <<>>, groups |-> <<>>, activeGroup |-> EmptyStr]
             /\ ReadSlice(futuresHeap, handlers[1].futures) = <<>>
             /\ handlers[1].options.Level = (IF last.rec.Level = "nil" THEN "info" ELSE last.rec.Level)
             /\ handlers[1].options.WebhookURL = last.rec.WebhookURL
             /\ handlers[1].options.EnableAsync = last.rec.EnableAsync
             /\ handlers[1].options.RecordFormatter = last.rec.RecordFormatter

\* C13 witness: an asynchronous handler constructed without a level
C13_Witness ==
    /\ last.op = "New"
    /\ last.err = "nil"
    /\ last.rec.Level = "nil"
    /\ last.rec.EnableAsync
    /\ Len(handlers) = 1
    /\ handlers[1].options.Level = "info"

\* C13 witness of the failure: a construction without URL
C13_WitnessNoURL ==
    /\ last.op = "New"
    /\ last.rec.WebhookURL = EmptyStr
    /\ last.err # "nil"
    /\ handlers = <<>>

----------------------------------------------------------------------------
(* The futures after Shutdown (behaviours of SpecDrain).                    *)

\* C15: when Shutdown of a handler has returned and no Handle was called on
\* the handler since Shutdown was called, the handler's futures are empty
\* (a second Shutdown has nothing to await).
C15_DrainedEmpty ==
    ( /\ shutdown.pc = "returned"
      /\ \A t \in 1..Len(tasks) : tasks[t].owner = shutdown.h => t \in shutdown.started )
    => ReadSlice(futuresHeap, handlers[shutdown.h].futures) = <<>>

----------------------------------------------------------------------------
(* Concurrent callers: one asynchronous handler, Handle calls that run at   *)
(* the same time, statement by statement, and one Shutdown.                 *)

MaxRaceCalls == 3

NextRace ==
    \/ NewSlackHandler(HandlerOptions(TRUE, URL, "nil", <<>>))
    \/ /\ Len(inflight) < MaxRaceCalls
       /\ \E i \in 1..Len(handlers) : HandleExec(i, Record(<<>>))
    \/ \E c \in 1..Len(inflight) : HandleLoad(c)
    \/ \E c \in 1..Len(inflight) : HandleStore(c)
    \/ \E t \in 1..Len(tasks) : TaskRun(t, "nil")
    \/ /\ shutdown.pc = "idle"
       /\ \E i \in 1..Len(handlers) : ShutdownCall(i)
    \/ ShutdownAwait

SpecRace == Init /\ [][NextRace]_vars

\* the futures of the handler, as a set
FuturesOf(i) == {ReadSlice(futuresHeap, handlers[i].futures)[k] : k \in 1..handlers[i].futures.len}

\* C14: with Handle calls running at the same time on one handler, no future
\* is lost: the future of every call that has returned is in the handler's
\* futures, and when Shutdown has returned, the goroutine of every Handle
\* call that returned before Shutdown was called has ended.
C14_NoFutureLost ==
    \A c \in 1..Len(inflight) :
       inflight[c].pc = "returned" =>
          /\ inflight[c].future \in FuturesOf(inflight[c].h)
          /\ (shutdown.pc = "returned" /\ shutdown.h = inflight[c].h /\ inflight[c].beforeShutdown)
                => tasks[inflight[c].future].done

====
